---- MODULE Spec2Model ----
(***************************************************************************)
(* Model of mupdf.py: process_page (one page of a PDF rendered, encoded    *)
(* and written to disk) and pdf_to_jpeg (the batch driver, sequential or   *)
(* over a ProcessPoolExecutor).                                            *)
(*                                                                         *)
(* Strings are sequences of one-character strings, so that os.path and     *)
(* str.lower are computed the way the library computes them.               *)
(***************************************************************************)
EXTENDS Integers, Sequences, FiniteSets, TLC

\* ------------------------------------------------------------------ bounds
MaxPages == 2
MaxWorkers == 2

\* ------------------------------------------------------- program constants
PointsPerInch == 72
WebpMethod == 0
PngCompressLevel == 1

\* ------------------------------------------------------------------ inputs
\* pdf_path: a file in a directory whose stem holds a dot
PdfPaths == { <<"d", "/", "a", ".", "b", ".", "p", "d", "f">> }

OutputDir == <<"o", "u", "t">>

\* img_format values: the five of the command line, two spellings in another
\* case and a value no branch recognises (direct API use)
ImgFormats == { <<"w", "e", "b", "p">>,
                <<"j", "p", "e", "g">>,
                <<"j", "p", "g">>,
                <<"p", "n", "g">>,
                <<"b", "a", "s", "e", "6", "4">>,
                <<"P", "N", "G">>,
                <<"B", "A", "S", "E", "6", "4">>,
                <<"t", "i", "f", "f">> }

Dpis == {300}
Qualities == {80}

\* ----------------------------------------------------------- str and os.path
LowerChar(c) ==
    CASE c = "P" -> "p"
      [] c = "N" -> "n"
      [] c = "G" -> "g"
      [] c = "B" -> "b"
      [] c = "A" -> "a"
      [] c = "S" -> "s"
      [] c = "E" -> "e"
      [] OTHER -> c

Lower(s) == [k \in 1..Len(s) |-> LowerChar(s[k])]

Digit(d) ==
    CASE d = 0 -> "0" [] d = 1 -> "1" [] d = 2 -> "2" [] d = 3 -> "3"
      [] d = 4 -> "4" [] d = 5 -> "5" [] d = 6 -> "6" [] d = 7 -> "7"
      [] d = 8 -> "8" [] OTHER -> "9"

RECURSIVE Str(_)
Str(n) == IF n < 10 THEN <<Digit(n)>> ELSE Str(n \div 10) \o <<Digit(n % 10)>>

\* index of the last occurrence of c in s, 0 when there is none
LastIndex(s, c) ==
    LET hits == {k \in 1..Len(s) : s[k] = c}
    IN  IF hits = {} THEN 0 ELSE CHOOSE k \in hits : \A j \in hits : j <= k

Basename(p) == SubSeq(p, LastIndex(p, "/") + 1, Len(p))

\* os.path.splitext: the extension starts at the last dot of the last path
\* component, unless only dots precede it in that component
SplitExt(p) ==
    LET sep == LastIndex(p, "/")
        dot == LastIndex(p, ".")
    IN  IF dot > sep /\ \E k \in (sep + 1)..(dot - 1) : p[k] # "."
        THEN <<SubSeq(p, 1, dot - 1), SubSeq(p, dot, Len(p))>>
        ELSE <<p, <<>> >>

PathJoin(a, b) ==
    IF b # <<>> /\ b[1] = "/" THEN b
    ELSE IF a = <<>> \/ a[Len(a)] = "/" THEN a \o b
    ELSE a \o <<"/">> \o b

\* ------------------------------------------------------------ process_page
FileName(pdf_path) == SplitExt(Basename(pdf_path))[1]

\* the file name numbered from 0
OutputImageZeroBased(pdf_path, page_num, output_dir, img_format) ==
    PathJoin(output_dir,
             FileName(pdf_path) \o <<"_">> \o Str(page_num) \o <<".">> \o img_format)

\* the file name without the page number
OutputImageNoPage(pdf_path, page_num, output_dir, img_format) ==
    PathJoin(output_dir, FileName(pdf_path) \o <<".">> \o img_format)

OutputImage(pdf_path, page_num, output_dir, img_format) ==
    PathJoin(output_dir,
             FileName(pdf_path) \o <<"_">> \o Str(page_num + 1) \o <<".">> \o img_format)

\* one extension too many is stripped
B64OutputStripTwice(output_image) ==
    SplitExt(SplitExt(output_image)[1])[1] \o <<".", "b", "6", "4">>

B64Output(output_image) == SplitExt(output_image)[1] \o <<".", "b", "6", "4">>

\* img_format compared as given, without lower()
FormatBranchExact(img_format) ==
    LET f == img_format
    IN  IF f = <<"w", "e", "b", "p">> THEN "webp"
        ELSE IF f = <<"j", "p", "e", "g">> \/ f = <<"j", "p", "g">> THEN "jpeg"
        ELSE IF f = <<"p", "n", "g">> THEN "png"
        ELSE IF f = <<"b", "a", "s", "e", "6", "4">> THEN "base64"
        ELSE "default"

\* the branch of the if/elif chain that img_format selects
FormatBranch(img_format) ==
    LET f == Lower(img_format)
    IN  IF f = <<"w", "e", "b", "p">> THEN "webp"
        ELSE IF f = <<"j", "p", "e", "g">> \/ f = <<"j", "p", "g">> THEN "jpeg"
        ELSE IF f = <<"p", "n", "g">> THEN "png"
        ELSE IF f = <<"b", "a", "s", "e", "6", "4">> THEN "base64"
        ELSE "default"

\* the file the task writes
WrittenPath(pdf_path, page_num, output_dir, img_format) ==
    IF FormatBranch(img_format) = "base64"
    THEN B64Output(OutputImage(pdf_path, page_num, output_dir, img_format))
    ELSE OutputImage(pdf_path, page_num, output_dir, img_format)

Matrix(dpi) == [num |-> dpi, den |-> PointsPerInch]

\* page.get_pixmap: the raster of one page at one scale
Pixmap(page_num, dpi) == [page |-> page_num, matrix |-> Matrix(dpi)]

\* no raster yet, and the content of a file nothing has been written to
NoPix == [page |-> -1, matrix |-> Matrix(0)]
NoData == [codec |-> "", pix |-> NoPix, quality |-> 0, effort |-> 0, b64 |-> FALSE]

\* img.save / base64.b64encode: the bytes that end up in the file
Encoded(pix, img_format, quality) ==
    LET b == FormatBranch(img_format)
    IN  IF b = "jpeg"
        THEN [codec |-> "JPEG", pix |-> pix, quality |-> quality, effort |-> 0, b64 |-> FALSE]
        ELSE IF b = "png"
        THEN [codec |-> "PNG", pix |-> pix, quality |-> 0, effort |-> PngCompressLevel, b64 |-> FALSE]
        ELSE [codec |-> "WEBP", pix |-> pix, quality |-> quality, effort |-> WebpMethod,
              b64 |-> (b = "base64")]

\* ------------------------------------------------------------------- state
CpuCount == 1

\* max_workers: None is the empty tuple, a number n the tuple <<n>>
None == <<>>
WorkerArgs == {<<n>> : n \in 1..MaxWorkers} \cup {None}

VARIABLES
    args,        \* the arguments of pdf_to_jpeg
    pdf,         \* number of pages of the file at args.pdf_path
    pc,          \* position of pdf_to_jpeg
    page_count,  \* len(doc) as read by the probe
    page_num,    \* loop variable of the sequential loop
    futures,     \* pages submitted so far, in submission order
    queue,       \* submitted calls no worker has taken yet
    consumed,    \* futures as_completed has already yielded
    task,        \* one process_page call per page: position and locals
    handles,     \* every document fitz.open has returned
    dirs,        \* directories that exist
    files,       \* files on disk
    stdout,      \* lines printed
    doc          \* the handle of the page-count probe

vars == <<args, pdf, pc, page_count, page_num, futures, queue, consumed,
          task, handles, dirs, files, stdout, doc>>

Pages == 0..(pdf - 1)

\* the page numbers a call of process_page could be made with
Indices == 0..MaxPages

\* a process_page call that has not been made
NoCall == [pc |-> "idle", calls |-> 0, doc |-> 0, pix |-> NoPix]

Running(i) == task[i].pc \in {"open", "render", "save", "write", "close"}
Ended(i) == task[i].pc \in {"returned", "raised"}

\* ProcessPoolExecutor(max_workers): the number of worker processes
PoolSize(max_workers) == IF max_workers = None THEN CpuCount ELSE max_workers[1]

Init ==
    /\ \E p \in PdfPaths, f \in ImgFormats, d \in Dpis, q \in Qualities,
          par \in BOOLEAN, w \in WorkerArgs :
          /\ ~par => w = None
          /\ args = [pdf_path |-> p, output_dir |-> OutputDir, dpi |-> d,
                     parallel |-> par, max_workers |-> w, img_format |-> f,
                     quality |-> q]
    /\ pdf \in 0..MaxPages
    /\ pc = "start"
    /\ page_count = 0
    /\ page_num = 0
    /\ futures = <<>>
    /\ queue = <<>>
    /\ consumed = {}
    /\ task = [i \in Indices |-> NoCall]
    /\ handles = <<>>
    /\ dirs \in SUBSET {OutputDir}
    /\ files = {}
    /\ stdout = <<>>
    /\ doc = 0

\* ------------------------------------------------------------ fitz handles
ProbeOwner == [kind |-> "probe", page |-> 0]
PageOwner(i) == [kind |-> "page", page |-> i]

FitzOpen(hs, owner) == Append(hs, [owner |-> owner, open |-> TRUE, closes |-> 0])

FitzClose(hs, h) == [hs EXCEPT ![h].open = FALSE, ![h].closes = @ + 1]

\* ------------------------------------------------------------- file system
\* open(path, "wb"): the file exists and is empty until it is written
Truncate(fs, path) ==
    {f \in fs : f.path # path} \cup {[path |-> path, data |-> NoData, complete |-> FALSE]}

WriteFile(fs, path, data) ==
    {f \in fs : f.path # path} \cup {[path |-> path, data |-> data, complete |-> TRUE]}

\* ----------------------------------------------------- process_page, steps
\* an exception leaves process_page: in the calling process it leaves
\* pdf_to_jpeg as well, in a worker it is stored in the future
Raise(i) ==
    /\ task' = [task EXCEPT ![i].pc = "raised"]
    /\ pc' = IF args.parallel THEN pc ELSE "failed"

Path(i) == WrittenPath(args.pdf_path, i, args.output_dir, args.img_format)

\* line 21: fitz.open returns a document
OpenDocOk(i) ==
    /\ task[i].pc = "open"
    /\ handles' = FitzOpen(handles, PageOwner(i))
    /\ task' = [task EXCEPT ![i].pc = "render", ![i].doc = Len(handles) + 1]
    /\ UNCHANGED <<args, pdf, pc, page_count, page_num, futures, queue, consumed,
                   dirs, files, stdout, doc>>

\* line 21: fitz.open raises
OpenDocFail(i) ==
    /\ task[i].pc = "open"
    /\ Raise(i)
    /\ UNCHANGED <<args, pdf, page_count, page_num, futures, queue, consumed,
                   handles, dirs, files, stdout, doc>>

OpenDoc(i) == OpenDocOk(i) \/ OpenDocFail(i)

\* lines 22-28: load_page, get_pixmap, Image.frombytes
RenderPageOk(i) ==
    /\ task[i].pc = "render"
    /\ i < pdf
    /\ task' = [task EXCEPT ![i].pc = "save", ![i].pix = Pixmap(i, args.dpi)]
    /\ UNCHANGED <<args, pdf, pc, page_count, page_num, futures, queue, consumed,
                   handles, dirs, files, stdout, doc>>

\* lines 22-28: the page does not exist or cannot be rasterized
RenderPageFail(i) ==
    /\ task[i].pc = "render"
    /\ Raise(i)
    /\ UNCHANGED <<args, pdf, page_count, page_num, futures, queue, consumed,
                   handles, dirs, files, stdout, doc>>

RenderPage(i) == RenderPageOk(i) \/ RenderPageFail(i)

\* lines 32-51: the output file is opened for writing
SaveOpenOk(i) ==
    /\ task[i].pc = "save"
    /\ args.output_dir \in dirs
    /\ files' = Truncate(files, Path(i))
    /\ task' = [task EXCEPT ![i].pc = "write"]
    /\ UNCHANGED <<args, pdf, pc, page_count, page_num, futures, queue, consumed,
                   handles, dirs, stdout, doc>>

\* lines 32-51: the encoder or the open of the output file raises
SaveOpenFail(i) ==
    /\ task[i].pc = "save"
    /\ Raise(i)
    /\ UNCHANGED <<args, pdf, page_count, page_num, futures, queue, consumed,
                   handles, dirs, files, stdout, doc>>

SaveOpen(i) == SaveOpenOk(i) \/ SaveOpenFail(i)

\* lines 36-58: the encoded bytes are written and the file is closed
SaveWriteOk(i) ==
    /\ task[i].pc = "write"
    /\ files' = WriteFile(files, Path(i),
                          Encoded(task[i].pix, args.img_format, args.quality))
    /\ task' = [task EXCEPT ![i].pc = "close"]
    /\ UNCHANGED <<args, pdf, pc, page_count, page_num, futures, queue, consumed,
                   handles, dirs, stdout, doc>>

\* lines 36-58: the write raises and leaves the file as it is
SaveWriteFail(i) ==
    /\ task[i].pc = "write"
    /\ Raise(i)
    /\ UNCHANGED <<args, pdf, page_count, page_num, futures, queue, consumed,
                   handles, dirs, files, stdout, doc>>

SaveWrite(i) == SaveWriteOk(i) \/ SaveWriteFail(i)

\* lines 61-66
CloseDoc(i) ==
    /\ task[i].pc = "close"
    /\ handles' = FitzClose(handles, task[i].doc)
    /\ task' = [task EXCEPT ![i].pc = "returned"]
    /\ UNCHANGED <<args, pdf, pc, page_count, page_num, futures, queue, consumed,
                   dirs, files, stdout, doc>>

\* ----------------------------------------------------- pdf_to_jpeg, steps
Line(kind, n, of) ==
    [kind |-> kind, n |-> n, of |-> of,
     mode |-> IF args.parallel THEN "parallel" ELSE "sequential"]

\* lines 83-84
MakeDirs ==
    /\ pc = "start"
    /\ dirs' = dirs \cup {args.output_dir}
    /\ pc' = "probe"
    /\ UNCHANGED <<args, pdf, page_count, page_num, futures, queue, consumed,
                   task, handles, files, stdout, doc>>

\* line 87: fitz.open returns a document
ProbeOpenOk ==
    /\ pc = "probe"
    /\ handles' = FitzOpen(handles, ProbeOwner)
    /\ doc' = Len(handles) + 1
    /\ pc' = "probed"
    /\ UNCHANGED <<args, pdf, page_count, page_num, futures, queue, consumed,
                   task, dirs, files, stdout>>

\* line 87: fitz.open raises
ProbeOpenFail ==
    /\ pc = "probe"
    /\ pc' = "failed"
    /\ UNCHANGED <<args, pdf, page_count, page_num, futures, queue, consumed,
                   task, handles, dirs, files, stdout, doc>>

ProbeOpen == ProbeOpenOk \/ ProbeOpenFail

\* lines 88-94
ProbeCount ==
    /\ pc = "probed"
    /\ page_count' = pdf
    /\ handles' = FitzClose(handles, doc)
    /\ stdout' = Append(stdout, Line("header", pdf, pdf))
    /\ pc' = "dispatch"
    /\ UNCHANGED <<args, pdf, page_num, futures, queue, consumed,
                   task, dirs, files, doc>>

\* lines 96-98 and 106-108
Dispatch ==
    /\ pc = "dispatch"
    /\ pc' = IF args.parallel THEN "submit" ELSE "loop"
    /\ UNCHANGED <<args, pdf, page_count, page_num, futures, queue, consumed,
                   task, handles, dirs, files, stdout, doc>>

\* range(page_count + 1)
SubmitOneMore ==
    /\ pc = "submit"
    /\ Len(futures) <= page_count
    /\ LET i == Len(futures)
       IN  /\ futures' = Append(futures, i)
           /\ queue' = Append(queue, i)
           /\ task' = [task EXCEPT ![i].pc = "pending"]
    /\ UNCHANGED <<args, pdf, pc, page_count, page_num, consumed,
                   handles, dirs, files, stdout, doc>>

\* line 100: one executor.submit
Submit ==
    /\ pc = "submit"
    /\ Len(futures) < page_count
    /\ LET i == Len(futures)
       IN  /\ futures' = Append(futures, i)
           /\ queue' = Append(queue, i)
           /\ task' = [task EXCEPT ![i].pc = "pending"]
    /\ UNCHANGED <<args, pdf, pc, page_count, page_num, consumed,
                   handles, dirs, files, stdout, doc>>

\* lines 100-103: the list is complete, as_completed starts
SubmitDone ==
    /\ pc = "submit"
    /\ Len(futures) = page_count
    /\ pc' = "collect"
    /\ UNCHANGED <<args, pdf, page_count, page_num, futures, queue, consumed,
                   task, handles, dirs, files, stdout, doc>>

Busy == {j \in Indices : Running(j)}

\* a process per call instead of a pool of max_workers
StartTaskUnbounded(i) ==
    /\ queue # <<>>
    /\ i = Head(queue)
    /\ queue' = Tail(queue)
    /\ task' = [task EXCEPT ![i].pc = "open", ![i].calls = @ + 1]
    /\ UNCHANGED <<args, pdf, pc, page_count, page_num, futures, consumed,
                   handles, dirs, files, stdout, doc>>

\* a free worker process takes the oldest submitted call
StartTask(i) ==
    /\ queue # <<>>
    /\ i = Head(queue)
    /\ Cardinality(Busy) < PoolSize(args.max_workers)
    /\ queue' = Tail(queue)
    /\ task' = [task EXCEPT ![i].pc = "open", ![i].calls = @ + 1]
    /\ UNCHANGED <<args, pdf, pc, page_count, page_num, futures, consumed,
                   handles, dirs, files, stdout, doc>>

\* the future is yielded and its exception is never looked at
CollectIgnoring(i) ==
    /\ pc = "collect"
    /\ \E k \in 1..Len(futures) : futures[k] = i
    /\ i \notin consumed
    /\ Ended(i)
    /\ consumed' = consumed \cup {i}
    /\ stdout' = IF task[i].pc = "returned"
                 THEN Append(stdout, Line("page", i + 1, page_count))
                 ELSE stdout
    /\ UNCHANGED <<args, pdf, pc, page_count, page_num, futures, queue,
                   task, handles, dirs, files, doc>>

\* lines 103-105: as_completed yields a finished future, result() returns
\* the page number or raises the exception of the call
Collect(i) ==
    /\ pc = "collect"
    /\ \E k \in 1..Len(futures) : futures[k] = i
    /\ i \notin consumed
    /\ Ended(i)
    /\ consumed' = consumed \cup {i}
    /\ IF task[i].pc = "returned"
       THEN /\ stdout' = Append(stdout, Line("page", i + 1, page_count))
            /\ pc' = pc
       ELSE /\ stdout' = stdout
            /\ pc' = "unwind"
    /\ UNCHANGED <<args, pdf, page_count, page_num, futures, queue,
                   task, handles, dirs, files, doc>>

\* line 103, 98: every future was yielded, the with block is left
ExitPool ==
    /\ pc = "collect"
    /\ consumed = {futures[k] : k \in 1..Len(futures)}
    /\ pc' = "total"
    /\ UNCHANGED <<args, pdf, page_count, page_num, futures, queue, consumed,
                   task, handles, dirs, files, stdout, doc>>

\* shutdown(wait=False)
ShutdownNoWait ==
    /\ pc = "unwind"
    /\ pc' = "failed"
    /\ UNCHANGED <<args, pdf, page_count, page_num, futures, queue, consumed,
                   task, handles, dirs, files, stdout, doc>>

\* line 98: the with block is left by the exception; shutdown(wait=True)
\* returns once every submitted call has run
Shutdown ==
    /\ pc = "unwind"
    /\ queue = <<>>
    /\ Busy = {}
    /\ pc' = "failed"
    /\ UNCHANGED <<args, pdf, page_count, page_num, futures, queue, consumed,
                   task, handles, dirs, files, stdout, doc>>

\* lines 108-109: the loop calls process_page
SeqCall ==
    /\ pc = "loop"
    /\ page_num < page_count
    /\ task' = [task EXCEPT ![page_num].pc = "open", ![page_num].calls = @ + 1]
    /\ pc' = "call"
    /\ UNCHANGED <<args, pdf, page_count, page_num, futures, queue, consumed,
                   handles, dirs, files, stdout, doc>>

\* the line of a page is printed while its file is still being written
SeqPrintEarly ==
    /\ pc = "call"
    /\ task[page_num].pc \in {"write", "returned"}
    /\ stdout' = Append(stdout, Line("page", page_num + 1, page_count))
    /\ page_num' = page_num + 1
    /\ pc' = "loop"
    /\ UNCHANGED <<args, pdf, page_count, futures, queue, consumed,
                   task, handles, dirs, files, doc>>

\* lines 109-110: process_page has returned
SeqPrint ==
    /\ pc = "call"
    /\ task[page_num].pc = "returned"
    /\ stdout' = Append(stdout, Line("page", page_num + 1, page_count))
    /\ page_num' = page_num + 1
    /\ pc' = "loop"
    /\ UNCHANGED <<args, pdf, page_count, futures, queue, consumed,
                   task, handles, dirs, files, doc>>

\* line 108: range(page_count) is exhausted
SeqEnd ==
    /\ pc = "loop"
    /\ page_num = page_count
    /\ pc' = "total"
    /\ UNCHANGED <<args, pdf, page_count, page_num, futures, queue, consumed,
                   task, handles, dirs, files, stdout, doc>>

\* lines 113-116
PrintTotal ==
    /\ pc = "total"
    /\ stdout' = Append(stdout, Line("total", 0, page_count))
    /\ pc' = "done"
    /\ UNCHANGED <<args, pdf, page_count, page_num, futures, queue, consumed,
                   task, handles, dirs, files, doc>>

Step(i) ==
    \/ OpenDoc(i) \/ RenderPage(i)
    \/ SaveOpen(i) \/ SaveWrite(i) \/ CloseDoc(i)

Driver ==
    \/ MakeDirs \/ ProbeOpen \/ ProbeCount \/ Dispatch
    \/ Submit \/ SubmitDone \/ ExitPool \/ Shutdown
    \/ SeqCall \/ SeqPrint \/ SeqEnd \/ PrintTotal
    \/ \E i \in Indices : Collect(i)

Worker == \E i \in Indices : StartTask(i) \/ Step(i)

Next == Driver \/ Worker

Spec == Init /\ [][Next]_vars

\* the specification of the liveness claim: parallel mode, one format, no
\* call of fitz, PIL or the file system raises, and the operating system
\* runs the driver or a worker whenever one of them can take a step
ParInit ==
    /\ Init
    /\ args.parallel
    /\ args.img_format = <<"w", "e", "b", "p">>

ParDriver ==
    \/ MakeDirs \/ ProbeOpenOk \/ ProbeCount \/ Dispatch
    \/ Submit \/ SubmitDone \/ ExitPool \/ PrintTotal
    \/ \E i \in Indices : Collect(i)

ParWorker ==
    \E i \in Indices :
        \/ StartTask(i) \/ OpenDocOk(i) \/ RenderPageOk(i)
        \/ SaveOpenOk(i) \/ SaveWriteOk(i) \/ CloseDoc(i)

ParNext == ParDriver \/ ParWorker

LiveSpec ==
    /\ ParInit
    /\ [][ParNext]_vars
    /\ WF_vars(ParNext)

Terminated == pc \in {"done", "failed"}


\* ----------------------------------------------------------------- helpers
\* the sequential loop as a function on the file system (lines 108-109 with
\* the writes of process_page)
RECURSIVE SequentialFiles(_, _)
SequentialFiles(fs, n) ==
    IF n = 0 THEN fs
    ELSE LET before == SequentialFiles(fs, n - 1)
             path == Path(n - 1)
         IN  WriteFile(Truncate(before, path), path,
                       Encoded(Pixmap(n - 1, args.dpi), args.img_format, args.quality))

PageLines(i) == {k \in 1..Len(stdout) : stdout[k].kind = "page" /\ stdout[k].n = i + 1}
TotalLines == {k \in 1..Len(stdout) : stdout[k].kind = "total"}
FilesOfPage(i) == {f \in files : f.data.pix.page = i}
Raised == {i \in Indices : task[i].pc = "raised"}

\* the name the documentation gives the file of page i, for the one pdf_path
\* of PdfPaths, with extension ext
DocumentedName(i, ext) ==
    <<"o", "u", "t", "/", "a", ".", "b", "_">> \o Str(i + 1) \o <<".">> \o ext

\* -------------------------------------------------------------------- C1
\* C1: a run of pdf_to_jpeg that completes without failure, in either mode,
\* has called process_page exactly once for each page index in
\* [0, page_count) and for no other index, and has left exactly one file per
\* page, whose name carries the 1-based number i + 1.
C1_EachPageOnce ==
    pc = "done" =>
        /\ page_count = pdf
        /\ \A i \in Indices : task[i].calls = (IF i \in Pages THEN 1 ELSE 0)
        /\ Cardinality(files) = pdf
        /\ \A i \in Pages :
              /\ Cardinality(FilesOfPage(i)) = 1
              /\ \A f \in FilesOfPage(i) :
                    /\ f.complete
                    /\ LET stem == SplitExt(Basename(f.path))[1]
                           tail == <<"_">> \o Str(i + 1)
                       IN  /\ Len(stem) > Len(tail)
                           /\ SubSeq(stem, Len(stem) - Len(tail) + 1, Len(stem)) = tail

C1_Witness ==
    /\ pc = "done"
    /\ pdf >= 2
    /\ \A i \in Pages : task[i].calls = 1 /\ FilesOfPage(i) # {}

\* -------------------------------------------------------------------- C2
\* C2: every document handle opened by the probe or by a process_page call
\* is released exactly once on every exit path, so that no final state of
\* pdf_to_jpeg has an open handle.
C2_HandlesReleased ==
    Terminated =>
        \A h \in 1..Len(handles) : ~handles[h].open /\ handles[h].closes = 1

\* -------------------------------------------------------------------- C3
\* C3: a failure-free parallel run, under every interleaving of the workers
\* and every pool size, ends with the files, with the content per page, that
\* the sequential loop produces for the same arguments; a failure-free
\* sequential run ends with them too.
C3_ParallelEqualsSequential ==
    pc = "done" => files = SequentialFiles({}, page_count)

C3_Witness ==
    /\ pc = "done"
    /\ args.parallel
    /\ PoolSize(args.max_workers) >= 2
    /\ pdf >= 2
    /\ files = SequentialFiles({}, page_count)
    /\ stdout[2].n # 1

\* -------------------------------------------------------------------- C4
\* C4: in parallel mode no two process_page calls share a resource: each
\* running call holds a document handle that it opened itself and that no
\* other call and not the probe holds, its raster is the one of its own
\* page, the paths of two distinct pages differ, and no two calls ever have
\* the same file open for writing.
C4_NoSharing ==
    args.parallel =>
        /\ \A i \in Indices :
              /\ task[i].doc # 0 =>
                    /\ handles[task[i].doc].owner = PageOwner(i)
                    /\ task[i].doc # doc
                    /\ Running(i) => handles[task[i].doc].open
              /\ task[i].pix # NoPix => task[i].pix.page = i
        /\ \A i, j \in Indices :
              i # j =>
                 /\ task[i].doc # 0 => task[i].doc # task[j].doc
                 /\ (task[i].pc = "write" /\ task[j].pc = "write") => Path(i) # Path(j)
        /\ Cardinality({Path(i) : i \in Indices}) = Cardinality(Indices)

C4_Witness ==
    /\ args.parallel
    /\ \E i, j \in Pages :
          /\ i # j
          /\ task[i].pc = "write"
          /\ task[j].pc = "write"
          /\ task[i].doc # task[j].doc

\* -------------------------------------------------------------------- C5
\* C5: in sequential mode at most one process_page call is in progress, and
\* for i < j the file and the log line of page i are there before the call
\* for page j starts; the log line of page i only appears once the file of
\* page i is written, and the log lines are in ascending page order.
C5_SequentialOrder ==
    ~args.parallel =>
        /\ Cardinality(Busy) <= 1
        /\ \A i, j \in Indices :
              (i < j /\ task[j].calls > 0) =>
                  /\ PageLines(i) # {}
                  /\ \E f \in FilesOfPage(i) : f.complete
        /\ \A i \in Indices :
              PageLines(i) # {} => \E f \in FilesOfPage(i) : f.complete
        /\ \A k, l \in 1..Len(stdout) :
              (k < l /\ stdout[k].kind = "page" /\ stdout[l].kind = "page")
                  => stdout[k].n < stdout[l].n

C5_Witness ==
    /\ ~args.parallel
    /\ pdf >= 2
    /\ task[1].pc = "write"
    /\ PageLines(0) # {}

\* -------------------------------------------------------------------- C6
\* what both readings of C6 share: process_page is never called twice for a
\* page; once a call has raised, pdf_to_jpeg never prints the total line and
\* never ends normally; in sequential mode the failure ends pdf_to_jpeg at
\* once and no later page is called; when pdf_to_jpeg has ended no call is
\* running or waiting.
C6_State ==
    /\ \A i \in Indices : task[i].calls <= 1
    /\ Raised # {} => (pc \notin {"total", "done"} /\ TotalLines = {})
    /\ (Raised # {} /\ Terminated) => pc = "failed"
    /\ ~args.parallel =>
          \A i \in Raised :
              /\ pc = "failed"
              /\ \A j \in Indices : j > i => task[j].calls = 0
    /\ Terminated => (Busy = {} /\ queue = <<>>)

\* a call that raised stays raised, and nothing happens after pdf_to_jpeg
\* has ended
C6_Step ==
    /\ \A i \in Indices : task[i].pc = "raised" => task'[i] = task[i]
    /\ Terminated => (task' = task /\ files' = files /\ stdout' = stdout /\ pc' = pc)

\* once the failure has reached the driver, no call of process_page starts
\* and no file changes
C6_NothingAfterFailure ==
    pc \in {"unwind", "failed"} =>
        /\ \A i \in Indices : task'[i].calls = task[i].calls
        /\ files' = files

\* C6 as stated: no error is recovered or retried, in either mode: the
\* failed page is never attempted again, the driver ends failed without the
\* total line, and once the failure has aborted the batch (the exception has
\* reached the driver) no further page is processed.
C6_NoRecoveryAbortsAtOnce ==
    [](C6_State) /\ [][C6_Step /\ C6_NothingAfterFailure]_vars

\* C6 as amended: no error is recovered or retried, in either mode: the
\* failed page is never attempted again and the driver ends failed without
\* the total line; in sequential mode no further page is processed after
\* the failure; in parallel mode the calls already submitted still run while
\* the pool shuts down, the exception leaves pdf_to_jpeg only when all of
\* them have ended, and nothing is processed after that.
C6_NoRecovery ==
    /\ [](C6_State)
    /\ []((args.parallel /\ pc = "failed" /\ page_count > 0)
             => \A i \in Pages : Ended(i))
    /\ [][C6_Step]_vars

\* a page is being written while the driver already holds the exception of
\* another page
C6_Witness ==
    /\ pc = "unwind"
    /\ args.parallel
    /\ Raised # {}
    /\ \E j \in Pages : task[j].pc = "write"

\* -------------------------------------------------------------------- C7
\* C7 as stated: in parallel mode a failure raised inside a worker's
\* process_page call is not surfaced to the caller, that is, pdf_to_jpeg
\* still returns normally.
C7_NotSurfaced ==
    (args.parallel /\ Terminated /\ Raised # {}) => pc = "done"

\* C7 as amended: in parallel mode a failure raised inside a worker's
\* process_page call is re-raised in the driver by future.result() and
\* leaves pdf_to_jpeg as an exception: a run in which a call raised never
\* returns normally, and the driver unwinds only for a future that raised.
C7_Surfaced ==
    args.parallel =>
        /\ (Terminated /\ Raised # {}) => pc = "failed"
        /\ pc = "unwind" => \E i \in consumed : task[i].pc = "raised"
        /\ \A i \in consumed : task[i].pc = "raised" => pc \in {"unwind", "failed"}

C7_Witness ==
    /\ args.parallel
    /\ pc = "failed"
    /\ \E i \in consumed : task[i].pc = "raised"
    /\ \E j \in Pages : task[j].pc = "returned"

\* -------------------------------------------------------------------- C8
TableFormats == { <<"w", "e", "b", "p">>, <<"j", "p", "e", "g">>, <<"j", "p", "g">>,
                  <<"p", "n", "g">>, <<"b", "a", "s", "e", "6", "4">> }

Written == {i \in Indices : task[i].pc \in {"close", "returned"}}

\* C8 as stated: a call with format f for page i writes exactly one file,
\* named <pdf-stem>_<i+1>.<ext> with ext = f for webp, jpeg, jpg and png and
\* ext = b64 for base64; and a value of f outside these five is encoded as
\* WEBP.
C8_ExtensionTable ==
    \A i \in Written :
        /\ Cardinality(FilesOfPage(i)) = 1
        /\ \A f \in FilesOfPage(i) :
              /\ args.img_format = <<"b", "a", "s", "e", "6", "4">>
                    => f.path = DocumentedName(i, <<"b", "6", "4">>)
              /\ args.img_format \in TableFormats \ {<<"b", "a", "s", "e", "6", "4">>}
                    => f.path = DocumentedName(i, args.img_format)
              /\ args.img_format \notin TableFormats
                    => (f.data.codec = "WEBP" /\ ~f.data.b64)

\* C8 as amended: the format is matched without regard to letter case. A
\* call for page i writes exactly one file; for any spelling of base64 it is
\* <pdf-stem>_<i+1>.b64 and holds base64 of WEBP, otherwise it is
\* <pdf-stem>_<i+1>.<f> with f as given, encoded as the format that the
\* lower-cased f names (jpeg and jpg as JPEG), and as WEBP when the
\* lower-cased f is none of the five.
C8_ExtensionTableAnyCase ==
    \A i \in Written :
        /\ Cardinality(FilesOfPage(i)) = 1
        /\ \A f \in FilesOfPage(i) :
              LET low == Lower(args.img_format)
              IN  /\ f.complete
                  /\ low = <<"b", "a", "s", "e", "6", "4">>
                        => /\ f.path = DocumentedName(i, <<"b", "6", "4">>)
                           /\ f.data.codec = "WEBP" /\ f.data.b64
                  /\ low # <<"b", "a", "s", "e", "6", "4">>
                        => /\ f.path = DocumentedName(i, args.img_format)
                           /\ ~f.data.b64
                  /\ low = <<"w", "e", "b", "p">> => f.data.codec = "WEBP"
                  /\ low \in {<<"j", "p", "e", "g">>, <<"j", "p", "g">>} => f.data.codec = "JPEG"
                  /\ low = <<"p", "n", "g">> => f.data.codec = "PNG"
                  /\ low \notin TableFormats => f.data.codec = "WEBP"

C8_Witness ==
    /\ args.img_format = <<"P", "N", "G">>
    /\ \E i \in Written : \E f \in FilesOfPage(i) : f.data.codec = "PNG"

\* -------------------------------------------------------------------- C9
\* once the probe has counted zero pages: nothing submitted, called or written
C9_EmptyDocument ==
    (pdf = 0 /\ pc \notin {"start", "probe", "probed", "failed"}) =>
        /\ page_count = 0
        /\ futures = <<>>
        /\ queue = <<>>
        /\ \A i \in Indices : task[i] = NoCall
        /\ files = {}
        /\ Len(handles) = 1
        /\ ~handles[doc].open
        /\ handles[doc].closes = 1

\* a run on a document that opened with zero pages never fails
C9_NeverFails == (pdf = 0 /\ doc # 0) => pc # "failed"

\* C9: when the probe has read page_count = 0, pdf_to_jpeg in either mode
\* never fails, submits nothing to the pool, never calls process_page,
\* writes no file and has closed the handle of the probe; when it ends, it
\* has ended normally.
C9_Empty == C9_EmptyDocument /\ C9_NeverFails

C9_Witness ==
    /\ pdf = 0
    /\ pc = "done"
    /\ args.parallel
    /\ TotalLines # {}

\* ------------------------------------------------------------------- C10
\* submission order, pool limit and reporting after completion
C10_Safety ==
    /\ \A k \in 1..Len(futures) : futures[k] = k - 1
    /\ Len(futures) <= page_count
    /\ consumed # {} => Len(futures) = page_count
    /\ Cardinality(Busy) <= PoolSize(args.max_workers)
    /\ \A i \in Indices :
          /\ Cardinality(PageLines(i)) <= 1
          /\ PageLines(i) # {} => (task[i].pc = "returned" /\ i \in consumed)

\* the run has ended normally and every page was reported once
C10_AllReported ==
    /\ pc = "done"
    /\ \A i \in Pages : Cardinality(PageLines(i)) = 1

\* C10: in parallel mode the pages are submitted in ascending order and all
\* of them before any result is consumed; at most max_workers calls run at
\* once; the line of a page is printed at most once and only after its call
\* has returned; and under fair scheduling of the driver and the workers a
\* run in which no call fails ends normally with every page reported once.
C10_ParallelProtocol == [](C10_Safety) /\ <>(C10_AllReported)

\* the lines of two pages printed in the order opposite to their submission
C10_Witness ==
    /\ C10_AllReported
    /\ pdf >= 2
    /\ \E k, l \in 1..Len(stdout) :
          k < l /\ stdout[k].kind = "page" /\ stdout[l].kind = "page"
                /\ stdout[k].n > stdout[l].n
====
